---- MODULE Spec2Model ----
(***************************************************************************)
(* Model of ckan/lib/search/elasticsearch: the process-wide connection     *)
(* settings (common.py), the two index writers (index.py and the package   *)
(* __init__.py), the notification hook and the query runner (query.py),    *)
(* together with the search engine they call.                              *)
(***************************************************************************)
EXTENDS Integers, Sequences, FiniteSets, TLC

VARIABLES
    is_initialised,   \* SearchEngineSettings._is_initialised
    url,              \* SearchEngineSettings._url
    user,             \* SearchEngineSettings._user
    password,         \* SearchEngineSettings._password
    es_handle,        \* an index.py SearchIndex instance exists (self.es is set)
    es_exists,        \* engine: the index 'ckan' exists
    es_docs,          \* engine: documents stored under a caller-given id (key = doc.id)
    es_auto,          \* engine: documents stored under engine-generated ids, oldest first
    last              \* the most recent call: what was called, what it raised, what it returned

vars == <<is_initialised, url, user, password, es_handle, es_exists, es_docs, es_auto, last>>

settings == <<is_initialised, url, user, password>>
engine == <<es_exists, es_docs, es_auto>>

----------------------------------------------------------------------------
(* Values *)

\* Python's None, as a value of an Optional[str]
None == "<None>"

DEFAULT_ELASTICSEARCH_URL == "http://127.0.0.1:9200"

\* Inputs of SearchEngineSettings.init
Urls == {None, "", "http://es1:9200", "http://es2:9200"}
Users == {None, "alice", "bob"}
Passwords == {None, "secret", "hunter2"}

\* Record of a call: op, its arguments, the engine requests it issued with their
\* results, the exception that escaped to the caller ("none" if it returned), that
\* exception's message (a tuple of its parts: the literal text, then the text of
\* the exception formatted into it), the returned value.
Call(op, args, calls, raised, msg, ret) ==
    [op |-> op, args |-> args, calls |-> calls, raised |-> raised, msg |-> msg, ret |-> ret]

NoMsg == <<>>

NoRet == <<>>

----------------------------------------------------------------------------
(* common.py: SearchEngineSettings *)

\* SearchEngineSettings.init(url, user, password)
init(u, us, pw) ==
    /\ IF u # None
          THEN /\ url' = u
               /\ user' = us
               /\ password' = pw
          ELSE /\ url' = DEFAULT_ELASTICSEARCH_URL
               /\ UNCHANGED <<user, password>>
    /\ is_initialised' = TRUE
    /\ last' = Call("init", <<u, us, pw>>, <<>>, "none", NoMsg, NoRet)
    /\ UNCHANGED <<es_handle, engine>>

\* get() as a bug would have it: the blank-URL check left out
get_no_blank_check ==
    IF ~is_initialised
       THEN [raised |-> "SearchIndexError", msg |-> <<"Elasticsearch URL not initialised">>, ret |-> NoRet]
       ELSE [raised |-> "none", msg |-> NoMsg, ret |-> <<url, user, password>>]

\* SearchEngineSettings.get(): what it raises or returns in the current state.
\* `not cls._url` is true of None and of the empty string.
get ==
    IF ~is_initialised
       THEN [raised |-> "SearchIndexError", msg |-> <<"Elasticsearch URL not initialised">>, ret |-> NoRet]
       ELSE IF url \in {None, ""}
               THEN [raised |-> "SearchIndexError", msg |-> <<"Elasticsearch URL is blank">>, ret |-> NoRet]
               ELSE [raised |-> "none", msg |-> NoMsg, ret |-> <<url, user, password>>]

\* A caller invokes SearchEngineSettings.get()
SettingsGet ==
    /\ last' = Call("get", <<>>, <<>>, get.raised, get.msg, get.ret)
    /\ UNCHANGED <<settings, es_handle, engine>>

\* make_connection() of common.py: raises what get() raises, else builds a client
\* (with http_auth when url, user and password are all truthy). Building the
\* client sends nothing to the engine.
make_connection ==
    IF get.raised # "none"
       THEN [raised |-> get.raised, msg |-> get.msg, auth |-> FALSE]
       ELSE [raised |-> "none", msg |-> NoMsg,
             auth |-> (get.ret[1] \notin {None, ""} /\ get.ret[2] \notin {None, ""}
                       /\ get.ret[3] \notin {None, ""})]

\* A caller invokes make_connection() of common.py
MakeConnection ==
    /\ last' = Call("make_connection", <<>>, <<>>, make_connection.raised,
                    make_connection.msg, <<make_connection.auth>>)
    /\ UNCHANGED <<settings, es_handle, engine>>

----------------------------------------------------------------------------
(* The search engine behind the client library *)

\* Cap on the documents the engine holds under ids it generated itself
MaxAuto == 1

\* The engine's default page size (10 in Elasticsearch), scaled to the model
EsDefaultSize == 2

IdOrder == <<"d1", "d2">>
Ids == {IdOrder[i] : i \in DOMAIN IdOrder}
Texts == {"a", "b"}

\* A document: a flat mapping with its unique id
Docs == [id : Ids, text : Texts]

\* A pkg_dict argument that is None
NoneDoc == [id |-> None, text |-> None]

\* What one request to the engine can come back with, whatever it asks for:
\* it is served, or the transport fails
EngineFaults == {"ok", "TransportError"}

Req(api, res) == [api |-> api, res |-> res]

HasId(id) == es_exists /\ \E d \in es_docs : d.id = id

\* The stored documents with d put under its own id (index with id, or update)
Put(d) == {x \in es_docs : x.id # d.id} \cup {d}

\* Number of stored copies of the document with this id, under whatever key
Copies(id) ==
    Cardinality({d \in es_docs : d.id = id})
      + Cardinality({i \in DOMAIN es_auto : es_auto[i].id = id})

\* What delete and update answer when served: 404 if the index or the id is missing
ById(id, r) == IF r # "ok" THEN r ELSE IF HasId(id) THEN "ok" ELSE "NotFoundError"

----------------------------------------------------------------------------
(* index.py: SearchIndex and PackageSearchIndex, built on make_connection() *)

\* SearchIndex.__init__: self.es = make_connection()
Index_new ==
    /\ es_handle' = (es_handle \/ make_connection.raised = "none")
    /\ last' = Call("index.SearchIndex", <<>>, <<>>, make_connection.raised,
                    make_connection.msg, NoRet)
    /\ UNCHANGED <<settings, engine>>

\* PackageSearchIndex.index_package(pkg_dict, defer_commit), called as `op`
index_package(op, pkg_dict, defer_commit) ==
    IF pkg_dict = NoneDoc
       THEN /\ last' = Call(op, <<pkg_dict, defer_commit>>, <<>>, "none", NoMsg, NoRet)
            /\ UNCHANGED engine
       ELSE \E r1, r2 \in EngineFaults :
              IF r1 # "ok"
                 THEN /\ r2 = "ok"
                      /\ last' = Call(op, <<pkg_dict, defer_commit>>, <<Req("index", r1)>>,
                                      "SearchIndexError", <<"Error indexing package: ", r1>>, NoRet)
                      /\ UNCHANGED engine
                 ELSE /\ es_docs' = Put(pkg_dict)
                      /\ es_exists' = TRUE
                      /\ UNCHANGED es_auto
                      /\ IF defer_commit
                            THEN /\ r2 = "ok"
                                 /\ last' = Call(op, <<pkg_dict, defer_commit>>,
                                                 <<Req("index", "ok")>>, "none", NoMsg, NoRet)
                            ELSE last' = Call(op, <<pkg_dict, defer_commit>>,
                                              <<Req("index", "ok"), Req("refresh", r2)>>,
                                              IF r2 = "ok" THEN "none" ELSE "SearchIndexError",
                                              IF r2 = "ok" THEN NoMsg
                                                 ELSE <<"Error indexing package: ", r2>>,
                                              NoRet)

\* PackageSearchIndex.update_dict(pkg_dict, defer_commit)
Index_update_dict ==
    /\ es_handle
    /\ \E d \in Docs \cup {NoneDoc}, defer_commit \in BOOLEAN :
          index_package("index.update_dict", d, defer_commit)
    /\ UNCHANGED <<settings, es_handle>>

\* SearchIndex.insert_dict(data): return self.update_dict(data)
Index_insert_dict ==
    /\ es_handle
    /\ \E d \in Docs : index_package("index.insert_dict", d, FALSE)
    /\ UNCHANGED <<settings, es_handle>>

\* What the step after a served delete does: `if not defer_commit` names nothing
\* that remove_dict or the module defines, so evaluating it raises NameError
remove_dict_refresh == "NameError"

\* PackageSearchIndex.remove_dict(pkg_dict)
Index_remove_dict ==
    /\ es_handle
    /\ \E d \in Docs, r \in EngineFaults :
         LET res == ById(d.id, r)
             c   == <<Req("delete", res)>> IN
         CASE res = "ok" ->
                /\ es_docs' = {x \in es_docs : x.id # d.id}
                /\ UNCHANGED <<es_exists, es_auto>>
                /\ last' = Call("index.remove_dict", <<d>>, c, "SearchIndexError",
                                <<"Error removing package: ", remove_dict_refresh>>, NoRet)
           [] res = "NotFoundError" ->
                /\ UNCHANGED engine
                /\ last' = Call("index.remove_dict", <<d>>, c, "none", NoMsg, NoRet)
           [] OTHER ->
                /\ UNCHANGED engine
                /\ last' = Call("index.remove_dict", <<d>>, c, "SearchIndexError",
                                <<"Error removing package: ", res>>, NoRet)
    /\ UNCHANGED <<settings, es_handle>>

\* SearchIndex.clear(): indices.delete(ignore=[400, 404]) then indices.create,
\* with no exception handler around them
Index_clear ==
    /\ es_handle
    /\ \E r1, r2 \in EngineFaults :
         IF r1 # "ok"
            THEN /\ r2 = "ok"
                 /\ UNCHANGED engine
                 /\ last' = Call("index.clear", <<>>, <<Req("indices.delete", r1)>>,
                                 r1, <<r1>>, NoRet)
            ELSE /\ es_docs' = {}
                 /\ es_auto' = <<>>
                 /\ es_exists' = (r2 = "ok")
                 /\ last' = Call("index.clear", <<>>,
                                 <<Req("indices.delete", "ok"), Req("indices.create", r2)>>,
                                 IF r2 = "ok" THEN "none" ELSE r2,
                                 IF r2 = "ok" THEN NoMsg ELSE <<r2>>, NoRet)
    /\ UNCHANGED <<settings, es_handle>>

----------------------------------------------------------------------------
(* __init__.py: SearchIndex on a client of its own, the notification hook *)

\* SearchIndex.insert_dict(data_dict), called as `op` with arguments `args`:
\* es.index(index=..., document=data_dict), which passes no id. `before` are the
\* requests the caller already issued.
insert_dict(op, args, before, data_dict) ==
    /\ Len(es_auto) < MaxAuto
    /\ \E r \in EngineFaults :
         IF r = "ok"
            THEN /\ es_auto' = Append(es_auto, data_dict)
                 /\ es_exists' = TRUE
                 /\ UNCHANGED es_docs
                 /\ last' = Call(op, args, before \o <<Req("index", "ok")>>, "none", NoMsg, NoRet)
            ELSE /\ UNCHANGED engine
                 /\ last' = Call(op, args, before \o <<Req("index", r)>>,
                                 "ElasticsearchIndexError", <<"Error inserting document: ", r>>,
                                 NoRet)

\* SearchIndex.update_dict(data_dict): es.update(id=data_dict.get('id'), doc=data_dict);
\* NotFoundError falls back to insert_dict
update_dict(op, args, data_dict) ==
    \E r \in EngineFaults :
       LET res == ById(data_dict.id, r) IN
       CASE res = "ok" ->
              /\ es_docs' = Put(data_dict)
              /\ UNCHANGED <<es_exists, es_auto>>
              /\ last' = Call(op, args, <<Req("update", "ok")>>, "none", NoMsg, NoRet)
         [] res = "NotFoundError" ->
              insert_dict(op, args, <<Req("update", res)>>, data_dict)
         [] OTHER ->
              /\ UNCHANGED engine
              /\ last' = Call(op, args, <<Req("update", res)>>, "ElasticsearchIndexError",
                              <<"Error updating document: ", res>>, NoRet)

\* SearchIndex.remove_dict(data_dict): es.delete(id=data_dict.get('id')), every
\* exception wrapped
remove_dict(op, args, data_dict) ==
    \E r \in EngineFaults :
       LET res == ById(data_dict.id, r) IN
       IF res = "ok"
          THEN /\ es_docs' = {x \in es_docs : x.id # data_dict.id}
               /\ UNCHANGED <<es_exists, es_auto>>
               /\ last' = Call(op, args, <<Req("delete", "ok")>>, "none", NoMsg, NoRet)
          ELSE /\ UNCHANGED engine
               /\ last' = Call(op, args, <<Req("delete", res)>>, "ElasticsearchIndexError",
                               <<"Error removing document: ", res>>, NoRet)

\* NoopSearchIndex.insert_dict / update_dict / remove_dict: pass
noop(op, args) ==
    /\ UNCHANGED engine
    /\ last' = Call(op, args, <<>>, "none", NoMsg, NoRet)

\* A caller builds a SearchIndex() of __init__.py (Elasticsearch([host, port]); the
\* settings are not read, nothing is sent) and calls insert_dict on it
Sync_insert_dict ==
    /\ \E d \in Docs : insert_dict("init.insert_dict", <<d>>, <<>>, d)
    /\ UNCHANGED <<settings, es_handle>>

\* ... and update_dict
Sync_update_dict ==
    /\ \E d \in Docs : update_dict("init.update_dict", <<d>>, d)
    /\ UNCHANGED <<settings, es_handle>>

\* ... and remove_dict
Sync_remove_dict ==
    /\ \E d \in Docs : remove_dict("init.remove_dict", <<d>>, d)
    /\ UNCHANGED <<settings, es_handle>>

\* _INDICES: the index class registered for each type key
_INDICES == [t \in {"package"} |-> "PackageSearchIndex"]

\* index_for(_type)
index_for(_type) ==
    IF _type \in DOMAIN _INDICES THEN _INDICES[_type] ELSE "NoopSearchIndex"

\* type(entity), the argument notify passes to index_for: a class object, which is
\* equal to no string key
TypeOf(entity) == <<"class", entity.kind>>

Entities == [kind : {"Package", "Group"}, doc : Docs]
Operations == {"new", "changed", "deleted", "purged"}

\* SynchronousSearchPlugin.notify(entity, operation)
notify ==
    /\ \E entity \in Entities, operation \in Operations :
         LET index == index_for(TypeOf(entity))
             args  == <<entity, operation>> IN
         IF entity.kind # "Package" \/ operation \notin {"new", "changed", "deleted"}
               \/ index = "NoopSearchIndex"
            THEN noop("notify", args)
            ELSE CASE operation = "new" -> insert_dict("notify", args, <<>>, entity.doc)
                   [] operation = "changed" -> update_dict("notify", args, entity.doc)
                   [] operation = "deleted" -> remove_dict("notify", args, entity.doc)
    /\ UNCHANGED <<settings, es_handle>>

\* What clear_all meets at its first statement: the module binds no name `es`
clear_all_es == "NameError"

\* clear_all(index_name): the exception is logged, nothing reaches the engine and
\* the call returns normally; ret holds what was logged
clear_all ==
    /\ last' = Call("clear_all", <<>>, <<>>, "none", NoMsg, <<"log.error", clear_all_es>>)
    /\ UNCHANGED <<settings, es_handle, engine>>

----------------------------------------------------------------------------
(* query.py: PackageSearchQuery *)

EmptyDict == [k \in {} |-> k]

\* A mapping with the key k, or without it
Opt(k, vals) == {EmptyDict} \cup {(k :> v) : v \in vals}

\* Query requests
Queries ==
    {q @@ fq @@ st @@ rw @@ fc :
        q  \in Opt("q", {"", "a"}),
        fq \in Opt("fq", {<<("id" :> "d1")>>}),
        st \in Opt("start", {1}),
        rw \in Opt("rows", {1}),
        fc \in Opt("facet", {TRUE})}

\* The clause as a bug would build it: free text whenever the key is there
Clause_key_only(query) ==
    IF "q" \in DOMAIN query
       THEN [kind |-> "multi_match", term |-> query["q"]]
       ELSE [kind |-> "match_all", term |-> ""]

\* The clause run() builds: multi_match if 'q' is there and truthy, else match_all
Clause(query) ==
    IF "q" \in DOMAIN query /\ query["q"] # ""
       THEN [kind |-> "multi_match", term |-> query["q"]]
       ELSE [kind |-> "match_all", term |-> ""]

\* The term filters of the request
Filters(query) == IF "fq" \in DOMAIN query THEN query["fq"] ELSE <<>>

\* Engine: does the document match the clause and every term filter
Matches(clause, filters, d) ==
    /\ clause.kind = "multi_match" => d.text = clause.term
    /\ \A i \in DOMAIN filters : \A k \in DOMAIN filters[i] : d[k] = filters[i][k]

\* Engine: the stored documents in the order it lists them
RECURSIVE KeyedFrom(_)
KeyedFrom(i) ==
    IF i > Len(IdOrder) THEN <<>>
    ELSE (IF \E d \in es_docs : d.id = IdOrder[i]
             THEN <<CHOOSE d \in es_docs : d.id = IdOrder[i]>> ELSE <<>>) \o KeyedFrom(i + 1)

Stored == KeyedFrom(1) \o es_auto

Min(a, b) == IF a < b THEN a ELSE b

\* Engine: the hits of a search, all of them
Hits(clause, filters) ==
    LET Test(d) == Matches(clause, filters, d) IN SelectSeq(Stored, Test)

\* Engine: the page of hits from offset `from`, at most `size` of them
Page(hits, from, size) ==
    SubSeq(hits, from + 1, Min(Len(hits), from + size))

\* make_connection() of query.py, which run() resolves to: Elasticsearch([url from
\* the host configuration]); the settings are not read
query_make_connection == [raised |-> "none", msg |-> NoMsg]

\* PackageSearchQuery._process_facets
_process_facets == EmptyDict

\* PackageSearchQuery.run(query)
run ==
    /\ \E query \in Queries, r \in EngineFaults :
         LET res  == IF r # "ok" THEN r ELSE IF es_exists THEN "ok" ELSE "NotFoundError"
             q    == Clause(query)
             hits == Hits(q, Filters(query))
             from == IF "start" \in DOMAIN query THEN query["start"] ELSE 0
             size == IF "rows" \in DOMAIN query THEN query["rows"] ELSE EsDefaultSize
             facets == IF "facet" \in DOMAIN query /\ query["facet"]
                          THEN _process_facets ELSE EmptyDict IN
         IF query_make_connection.raised # "none"
            THEN last' = Call("run", <<query, q>>, <<>>, query_make_connection.raised,
                              query_make_connection.msg, NoRet)
            ELSE IF res # "ok"
                    THEN last' = Call("run", <<query, q>>, <<Req("search", res)>>,
                                      res, <<res>>, NoRet)
                    ELSE last' = Call("run", <<query, q>>, <<Req("search", "ok")>>, "none", NoMsg,
                                      [results |-> Page(hits, from, size),
                                       count |-> Len(hits), facets |-> facets])
    /\ UNCHANGED <<settings, es_handle, engine>>

----------------------------------------------------------------------------
(* The adapter as a whole *)

\* Inputs of init here: the URL omitted, or blank
MainUrls == {None, ""}

Init ==
    /\ is_initialised = FALSE
    /\ url = None
    /\ user = None
    /\ password = None
    /\ es_handle = FALSE
    /\ es_exists \in BOOLEAN
    /\ es_docs = {}
    /\ es_auto = <<>>
    /\ last = Call("start", <<>>, <<>>, "none", NoMsg, NoRet)

Next ==
    \/ \E u \in MainUrls : init(u, None, None)
    \/ SettingsGet
    \/ Index_new
    \/ Index_insert_dict
    \/ Index_update_dict
    \/ Index_remove_dict
    \/ Index_clear
    \/ Sync_insert_dict
    \/ Sync_update_dict
    \/ Sync_remove_dict
    \/ notify
    \/ clear_all
    \/ run

Spec == Init /\ [][Next]_vars

----------------------------------------------------------------------------
(* The settings on their own *)

InitSettings ==
    /\ is_initialised = FALSE
    /\ url = None
    /\ user = None
    /\ password = None
    /\ es_handle = FALSE
    /\ es_exists = TRUE
    /\ es_docs = {}
    /\ es_auto = <<>>
    /\ last = Call("start", <<>>, <<>>, "none", NoMsg, NoRet)

NextSettings ==
    \/ \E u \in Urls, us \in Users, pw \in Passwords : init(u, us, pw)
    \/ SettingsGet
    \/ MakeConnection

SpecSettings == InitSettings /\ [][NextSettings]_vars

\* The triple the most recent init call asks for
Expected(args) ==
    IF args[1] # None THEN args ELSE <<DEFAULT_ELASTICSEARCH_URL, None, None>>

\* C1: get() raises the configuration error (SearchIndexError) exactly when init()
\* was never called or the most recent init() was given an empty URL; otherwise
\* it returns the stored (url, user, password) triple and raises nothing.
C1_GetFailsIffUninitialisedOrBlank ==
    /\ [](last.op = "get" =>
            /\ last.raised \in {"none", "SearchIndexError"}
            /\ (last.raised = "SearchIndexError") <=> (~is_initialised \/ url = "")
            /\ (last.raised = "none") => (last.ret = <<url, user, password>>))
    /\ [][(last.op = "init" /\ last'.op = "get") =>
            ((last'.raised = "SearchIndexError") <=> (last.args[1] = ""))]_vars
    /\ [][(last.op = "start" /\ last'.op = "get") => (last'.raised = "SearchIndexError")]_vars

\* C1 witness: get() has just failed on a blank URL given to init()
C1_Witness ==
    /\ last.op = "get"
    /\ is_initialised
    /\ url = ""
    /\ last.raised = "SearchIndexError"

\* C10 (as claimed): the get() that follows an init call returns exactly that call's
\* values: url, user, password when a URL was passed, the default URL with no user
\* and no password when it was omitted.
C10_GetReturnsMostRecentInit ==
    [][(last.op = "init" /\ last'.op = "get" /\ last'.raised = "none")
         => (last'.ret = Expected(last.args))]_vars

----------------------------------------------------------------------------
(* The adapter's properties *)

\* Is a document with these contents stored, under whatever key
InIndex(d) == d \in es_docs \/ \E i \in DOMAIN es_auto : es_auto[i] = d

\* The operations that open, or work through, a connection to the engine
ConnectionOps ==
    {"index.SearchIndex", "index.insert_dict", "index.update_dict", "index.remove_dict",
     "index.clear", "init.insert_dict", "init.update_dict", "init.remove_dict", "run"}

\* The index-writer operations
WriterOps ==
    {"index.insert_dict", "index.update_dict", "index.remove_dict", "index.clear",
     "init.insert_dict", "init.update_dict", "init.remove_dict", "clear_all"}

LocalIndexErrors == {"SearchIndexError", "ElasticsearchIndexError"}

\* C2 (as claimed): while init() was never called, every operation that opens a
\* connection ends in an error and sends nothing to the engine.
C2_UninitialisedAllFail ==
    [][(~is_initialised /\ last'.op \in ConnectionOps)
         => (last'.raised # "none" /\ last'.calls = <<>>)]_vars

\* C3 (as claimed): an update_dict that returns, on an index holding no copy of the
\* document's id (or, from an earlier such call, exactly one copy stored under that
\* id), leaves exactly one copy, stored under that id.
C3_UpdateLeavesOneCopyUnderId ==
    [][\A d \in Docs :
        (/\ last'.op \in {"index.update_dict", "init.update_dict"}
         /\ last'.raised = "none"
         /\ last'.args[1] = d
         /\ \/ Copies(d.id) = 0
            \/ Copies(d.id) = 1 /\ HasId(d.id))
          => (Copies(d.id) = 1 /\ HasId(d.id))']_vars

\* C4 (as claimed): remove_dict on an id that is not in the index, the engine
\* answering not-found, returns without raising and leaves the index as it was.
C4_RemoveMissingIsNoop ==
    [][(/\ last'.op \in {"index.remove_dict", "init.remove_dict"}
        /\ ~HasId(last'.args[1].id)
        /\ last'.calls[1].res = "NotFoundError")
         => (last'.raised = "none" /\ engine' = engine)]_vars

\* C5 (as claimed): a query that runs right after a clear-all that returned gets no
\* documents and a total count of 0.
C5_ClearAllThenQueryEmpty ==
    [][(/\ last.op \in {"clear_all", "index.clear"}
        /\ last.raised = "none"
        /\ last'.op = "run"
        /\ last'.raised = "none")
         => (last'.ret.results = <<>> /\ last'.ret.count = 0)]_vars

\* The stored documents that pass the term filters of a request
Unfiltered(query) ==
    Hits([kind |-> "match_all", term |-> ""], Filters(query))

\* C6: run() builds a match-all clause when 'q' is absent or empty and a free-text
\* clause on the term otherwise; without a term the count is that of all stored
\* documents passing the filters, with a term every result carries it; and run({})
\* counts every stored document and returns them up to the default page size.
C6_NoTermIsMatchAll ==
    (last.op = "run") =>
        LET query  == last.args[1]
            clause == last.args[2]
            noterm == "q" \notin DOMAIN query \/ query["q"] = "" IN
        /\ noterm => clause.kind = "match_all"
        /\ ~noterm => (clause.kind = "multi_match" /\ clause.term = query["q"])
        /\ (last.raised = "none") =>
              /\ noterm => last.ret.count = Len(Unfiltered(query))
              /\ ~noterm => /\ last.ret.count <= Len(Unfiltered(query))
                            /\ \A i \in DOMAIN last.ret.results :
                                  last.ret.results[i].text = query["q"]
              /\ (DOMAIN query = {}) =>
                    /\ last.ret.count = Len(Stored)
                    /\ last.ret.results = SubSeq(Stored, 1, Min(Len(Stored), EsDefaultSize))

\* C6 witness: run({}) has returned from an index holding more documents than the
\* default page, and returned a full page of them
C6_Witness ==
    /\ last.op = "run"
    /\ DOMAIN last.args[1] = {}
    /\ last.raised = "none"
    /\ last.args[2].kind = "match_all"
    /\ Len(Stored) > EsDefaultSize
    /\ Len(last.ret.results) = EsDefaultSize

\* C7 (as claimed): when a request of an index-writer operation meets an
\* engine-level exception, the operation raises the local indexing error and its
\* message carries the original one.
C7_EngineErrorsWrapped ==
    (last.op \in WriterOps) =>
        \A i \in DOMAIN last.calls :
            (last.calls[i].res = "TransportError") =>
                /\ last.raised \in LocalIndexErrors
                /\ last.msg # NoMsg
                /\ last.msg[Len(last.msg)] = last.calls[i].res

\* C8 (as claimed): notify on a Package puts the document in the index for 'new'
\* and 'changed' and leaves none with its id for 'deleted'; on anything else it
\* leaves the index as it was.
C8_NotifyForwards ==
    [][\A entity \in Entities, operation \in Operations :
        (last'.op = "notify" /\ last'.raised = "none" /\ last'.args = <<entity, operation>>) =>
          IF entity.kind = "Package" /\ operation \in {"new", "changed"}
             THEN InIndex(entity.doc)'
             ELSE IF entity.kind = "Package" /\ operation = "deleted"
                     THEN (Copies(entity.doc.id) = 0)'
                     ELSE engine' = engine]_vars

\* C9 (as claimed): when the id is in the index and the engine serves the delete,
\* PackageSearchIndex.remove_dict of index.py raises nothing and the id is gone.
C9_RemovePresentReturns ==
    [][\A d \in Docs :
        (/\ last'.op = "index.remove_dict"
         /\ last'.args = <<d>>
         /\ HasId(d.id)
         /\ last'.calls[1].res = "ok")
          => (last'.raised = "none" /\ (~HasId(d.id))')]_vars

====
